---- MODULE Spec2Model ----
(***************************************************************************)
(* Model of flask_kbpc/db/flaskalchemy/database.py: the DeclarativeBase    *)
(* active-record layer (create, update, save, delete, sdelete, restore,    *)
(* purge, commit, prepare, __eq__) and sessioncommit, on top of an         *)
(* abstract unit of work (db.session) with the add / delete / commit /     *)
(* rollback / close interface the source calls.  The outcome of each       *)
(* db.session.commit() is an input of the call that attempts it; after a   *)
(* commit that raises, the session is left as this layer leaves it.        *)
(***************************************************************************)
EXTENDS Integers, Sequences, FiniteSets, TLC

\* Number of entity instances the application holds.
NObj == 2

\* Number of calls made on the layer in one run.
MaxCalls == 2

Objs == 1..NObj
Ids == 1..NObj

\* Two concrete entity types: User(id, active, name, password, created) with
\* the one-to-many relationship "orders", Order(id, active, total) with the
\* many-to-one relationship "user". created is a DateTime column.
Types == {"User", "Order"}

Unset == "Unset"    \* the attribute is not in the instance's __dict__
None == "None"      \* Python None / SQL NULL

\* Every attribute name an instance __dict__ can hold in the model.
AttrNames ==
    {"id", "active", "name", "password", "created", "total", "orders", "user", "bogus",
     "commit"}

\* cls.__table__.columns.keys(), in declaration order (base columns first).
tablecolumns(T) ==
    IF T = "User" THEN <<"id", "active", "name", "password", "created">>
    ELSE <<"id", "active", "total">>

\* cls.__mapper__.relationships.keys()
relationships(T) == IF T = "User" THEN {"orders"} ELSE {"user"}

Range(s) == {s[i] : i \in DOMAIN s}

\* DeclarativeBase.keys: column names minus relationship names.
keys(T) == Range(tablecolumns(T)) \ relationships(T)

\* DeclarativeBase.fields with the default exc=[]: every key not excluded.
fields(T, exc) == {k \in keys(T) : k \notin exc}

\* DeclarativeBase.columns: the keys of the mapper's ColumnProperty entries.
columns(T) == tablecolumns(T)

\* A freshly constructed (or fully expired) __dict__.
EmptyDict == [f \in AttrNames |-> IF f = "id" THEN 0 ELSE Unset]

IsSet(d, f) == IF f = "id" THEN d[f] # 0 ELSE d[f] # Unset

\* A table row; live = FALSE is the absence of the row.
NoRow ==
    [live |-> FALSE, active |-> None, name |-> None, password |-> None,
     created |-> None, total |-> None]

VARIABLES
    cls,      \* cls[o]: the entity type of instance o, "none" before it is constructed
    st,       \* st[o]: the instance's state with respect to db.session
    dict,     \* dict[o]: the instance's __dict__ (loaded / assigned attributes)
    key,      \* key[o]: the primary key the mapper holds for the instance, 0 = none
    store,    \* store[T][i]: the committed row i of type T
    nextId,   \* nextId[T]: the next autoincrement id of type T
    purged,   \* types whose bulk DELETE is pending in the open transaction
    held,     \* the instances the application has a reference to
    inactive, \* the session's transaction was rolled back by a failed flush
    last,     \* what the last call did: its name, arguments, result and trace
    calls     \* the number of calls made so far

vars == <<cls, st, dict, key, store, nextId, purged, held, inactive, last, calls>>

\* The outcomes db.session.commit() can have.
Outcomes == {"ok", "operational", "integrity", "other"}

\* The state operated on by one call, with the trace of the call.
World ==
    [cls |-> cls, st |-> st, dict |-> dict, key |-> key, store |-> store,
     nextId |-> nextId, purged |-> purged, inactive |-> inactive,
     exc |-> "none", log |-> <<>>, rb |-> 0, cl |-> 0, added |-> FALSE, ret |-> 0,
     stale |-> FALSE]

----------------------------------------------------------------------------
\* The unit of work (db.session), at the interface the source uses.

\* Expired attributes: a persistent instance's __dict__ after commit / rollback.
Expired(d) == [EmptyDict EXCEPT !["bogus"] = d["bogus"]]

\* db.session.add(self)
session_add(w, o) ==
    LET s == w.st[o] IN
    IF s = "transient" THEN [w EXCEPT !.st[o] = "pending", !.added = TRUE]
    ELSE IF s \in {"detached", "todelete"} THEN [w EXCEPT !.st[o] = "persistent", !.added = TRUE]
    ELSE IF s \in {"deleted", "purged"} THEN [w EXCEPT !.exc = "InvalidRequestError"]
    ELSE [w EXCEPT !.added = TRUE]

\* db.session.delete(self)
session_delete(w, o) ==
    LET s == w.st[o] IN
    IF w.key[o] = 0 THEN [w EXCEPT !.exc = "InvalidRequestError"]
    ELSE IF s = "purged" THEN w
    ELSE [w EXCEPT !.st[o] = "todelete"]

\* The row an INSERT writes: assigned attributes, column defaults otherwise.
NewRow(T, d) ==
    [live |-> TRUE,
     active |-> IF IsSet(d, "active") THEN d["active"] ELSE "Y",
     name |-> IF "name" \in keys(T) /\ IsSet(d, "name") THEN d["name"] ELSE None,
     password |-> IF "password" \in keys(T) /\ IsSet(d, "password") THEN d["password"] ELSE None,
     created |-> IF "created" \in keys(T) /\ IsSet(d, "created") THEN d["created"] ELSE None,
     total |-> IF "total" \in keys(T) /\ IsSet(d, "total") THEN d["total"] ELSE None]

\* The row an UPDATE leaves: assigned attributes override the stored ones.
MergeRow(row, T, d) ==
    [live |-> TRUE,
     active |-> IF IsSet(d, "active") THEN d["active"] ELSE row.active,
     name |-> IF "name" \in keys(T) /\ IsSet(d, "name") THEN d["name"] ELSE row.name,
     password |-> IF "password" \in keys(T) /\ IsSet(d, "password") THEN d["password"] ELSE row.password,
     created |-> IF "created" \in keys(T) /\ IsSet(d, "created") THEN d["created"] ELSE row.created,
     total |-> IF "total" \in keys(T) /\ IsSet(d, "total") THEN d["total"] ELSE row.total]

\* Flush of one instance: INSERT a pending one, UPDATE a persistent one,
\* DELETE a marked one.
flushOne(w, o) ==
    LET T == w.cls[o]
        d == w.dict[o]
        k == w.key[o]
    IN  IF w.st[o] = "pending" THEN
            LET i == IF d["id"] # 0 THEN d["id"] ELSE w.nextId[T] IN
            [w EXCEPT !.store[T][i] = NewRow(T, d),
                      !.key[o] = i,
                      !.st[o] = "persistent",
                      !.nextId[T] = IF d["id"] # 0 THEN @ ELSE @ + 1]
        ELSE IF w.st[o] = "persistent" /\ k # 0 /\ w.store[T][k].live THEN
            LET i == IF d["id"] # 0 THEN d["id"] ELSE k
                merged == MergeRow(w.store[T][k], T, d)
            IN  [w EXCEPT !.store[T] = [[@ EXCEPT ![k] = NoRow] EXCEPT ![i] = merged],
                          !.key[o] = i]
        ELSE IF w.st[o] = "persistent" /\ (\E f \in keys(T) : IsSet(d, f)) THEN
            \* UPDATE of a row that is gone: the commit cannot succeed
            [w EXCEPT !.stale = TRUE]
        ELSE IF w.st[o] = "todelete" THEN
            [w EXCEPT !.store[T][k] = NoRow, !.st[o] = "deleted"]
        ELSE IF w.st[o] = "purged" THEN
            [w EXCEPT !.st[o] = "deleted"]
        ELSE w

\* Faulty variant: the flush of one instance only.
flush_single(w, o) == flushOne(w, o)

RECURSIVE flush(_, _)
flush(w, o) == IF o > NObj THEN w ELSE flush(flushOne(w, o), o + 1)

\* db.session.commit() succeeding: the pending bulk DELETEs, the flush, then
\* the expiry of every instance in the session (expire_on_commit).
session_commit_ok(w) ==
    LET w1 == [w EXCEPT !.store = [T \in Types |->
                            IF T \in w.purged THEN [i \in Ids |-> NoRow] ELSE w.store[T]],
                        !.purged = {}]
        w2 == flush(w1, 1)
    IN  [w2 EXCEPT !.dict = [o \in Objs |->
                        IF w2.st[o] = "persistent" THEN Expired(w2.dict[o]) ELSE w2.dict[o]]]

\* The session restoring the state it had when the transaction began:
\* pending instances are expunged, deletions are reverted, every persistent
\* instance is expired, the transaction's bulk DELETEs are undone.
restore_snapshot(w) ==
    LET ns == [o \in Objs |->
                 IF w.st[o] = "pending" THEN "transient"
                 ELSE IF w.st[o] = "todelete" THEN "persistent"
                 ELSE IF w.st[o] = "purged" THEN (IF w.key[o] = 0 THEN "transient" ELSE "persistent")
                 ELSE w.st[o]]
    IN  [w EXCEPT !.st = ns,
                  !.dict = [o \in Objs |->
                              IF ns[o] = "persistent" THEN Expired(w.dict[o]) ELSE w.dict[o]],
                  !.purged = {}]

\* db.session.rollback(): the snapshot is restored and a new transaction can
\* begin.
session_rollback(w) ==
    [restore_snapshot(w) EXCEPT !.inactive = FALSE, !.rb = @ + 1]

\* db.session.commit() failing in its flush (the integrity error of a
\* statement): the session rolls the transaction back, restores the snapshot
\* and accepts no further work until rollback() or close() is called.
session_flush_failed(w) ==
    [restore_snapshot(w) EXCEPT !.inactive = TRUE]

\* db.session.close(): every instance leaves the session, the transaction ends.
session_close(w) ==
    [w EXCEPT !.st = [o \in Objs |->
                        IF w.st[o] = "pending" THEN "transient"
                        ELSE IF w.st[o] \in {"persistent", "todelete"} THEN "detached"
                        ELSE IF w.st[o] = "purged" THEN (IF w.key[o] = 0 THEN "transient" ELSE "detached")
                        ELSE w.st[o]],
              !.purged = {},
              !.inactive = FALSE,
              !.cl = @ + 1]

\* cls.query.delete(): autoflush, then one bulk DELETE of every row of the
\* type in the open transaction; the session's instances of the type are
\* marked as deleted with it.
query_delete(w, T) ==
    IF w.inactive THEN [w EXCEPT !.exc = "InvalidRequestError"] ELSE
    [w EXCEPT !.st = [o \in Objs |->
                        IF w.cls[o] = T /\ w.st[o] \in {"pending", "persistent", "todelete"}
                        THEN "purged" ELSE w.st[o]],
              !.purged = @ \cup {T}]

----------------------------------------------------------------------------
\* sessioncommit (lines 35-48)

\* db.session.commit() on a session whose transaction a failed flush has
\* rolled back: it raises (InvalidRequestError) whatever the storage would
\* answer, so "other" is its only outcome.
commit_inactive(w, out) ==
    IF out = "other" THEN [w EXCEPT !.exc = "Exception"] ELSE [w EXCEPT !.stale = TRUE]

\* Faulty variant: the operational error is absorbed without rollback or close.
sessioncommit_norollback(w, out) ==
    LET w1 == [w EXCEPT !.log = Append(@, out)] IN
    IF w.inactive THEN commit_inactive(w1, out)
    ELSE IF out = "ok" THEN session_commit_ok(w1)
    ELSE IF out = "operational" THEN w1
    ELSE IF out = "integrity" THEN [session_flush_failed(w1) EXCEPT !.exc = "IntegrityError"]
    ELSE [w1 EXCEPT !.exc = "Exception"]

\* Faulty variant: the integrity error is handled like the operational one.
sessioncommit_absorbing(w, out) ==
    LET w1 == [w EXCEPT !.log = Append(@, out)] IN
    IF w.inactive THEN commit_inactive(w1, out)
    ELSE IF out = "ok" THEN session_commit_ok(w1)
    ELSE IF out \in {"operational", "integrity"}
         THEN session_close(session_close(session_rollback(w1)))
    ELSE [w1 EXCEPT !.exc = "Exception"]

\* Faulty variant: the integrity error is rolled back and closed here before
\* it is raised again.
sessioncommit_cleaning(w, out) ==
    LET w1 == [w EXCEPT !.log = Append(@, out)] IN
    IF w.inactive THEN commit_inactive(w1, out)
    ELSE IF out = "ok" THEN session_commit_ok(w1)
    ELSE IF out = "operational" THEN session_close(session_close(session_rollback(w1)))
    ELSE IF out = "integrity"
         THEN [session_close(session_rollback(session_flush_failed(w1))) EXCEPT !.exc = "IntegrityError"]
    ELSE [w1 EXCEPT !.exc = "Exception"]

\* The outcome out of db.session.commit() (line 38) and the branch taken for
\* it. "integrity" is the failure of a statement of the flush; "other" stands
\* for an error raised before the flush has touched the session.
sessioncommit(w, out) ==
    LET w1 == [w EXCEPT !.log = Append(@, out)] IN
    IF w.inactive THEN commit_inactive(w1, out)
    ELSE IF out = "ok" THEN session_commit_ok(w1)
    ELSE IF out = "operational" THEN session_close(session_close(session_rollback(w1)))
    ELSE IF out = "integrity" THEN [session_flush_failed(w1) EXCEPT !.exc = "IntegrityError"]
    ELSE [w1 EXCEPT !.exc = "Exception"]

----------------------------------------------------------------------------
\* DeclarativeBase lifecycle methods

\* save (lines 217-221)
save(w, o, commit, out) ==
    LET w1 == session_add(w, o) IN
    IF w1.exc # "none" THEN w1
    ELSE LET w2 == IF commit THEN sessioncommit(w1, out) ELSE w1 IN
         IF w2.exc # "none" THEN w2 ELSE [w2 EXCEPT !.ret = o]

\* Faulty variant: the loop without the test on id.
assign_withid(w, o, kw) ==
    LET T == w.cls[o] IN
    [w EXCEPT !.dict[o] = [f \in AttrNames |->
        IF f \in DOMAIN kw /\ f \in fields(T, {}) THEN kw[f] ELSE @[f]]]

\* Faulty variant: the loop without the test on fields().
assign_any(w, o, kw) ==
    [w EXCEPT !.dict[o] = [f \in AttrNames |->
        IF f \in DOMAIN kw /\ f # "id" THEN kw[f] ELSE @[f]]]

\* The loop of update (lines 224-226): setattr for the accepted names.
assign(w, o, kw) ==
    LET T == w.cls[o] IN
    [w EXCEPT !.dict[o] = [f \in AttrNames |->
        IF f \in DOMAIN kw /\ f # "id" /\ f \in fields(T, {}) THEN kw[f] ELSE @[f]]]

\* update (lines 223-227)
update(w, o, commit, kw, out) ==
    LET w1 == assign(w, o, kw) IN
    IF commit THEN save(w1, o, TRUE, out) ELSE [w1 EXCEPT !.ret = o]

\* create (lines 197-201): cls(), then instance.update(commit=False, **payload).
\* update's flag is named _commit (line 223): commit=False is one more keyword
\* argument of the loop and _commit keeps its default True.
create(w, o, T, kw, out) ==
    LET w1 == [w EXCEPT !.cls[o] = T, !.st[o] = "transient", !.dict[o] = EmptyDict] IN
    update(w1, o, TRUE, kw @@ ("commit" :> "False"), out)

\* delete (lines 203-205)
delete(w, o, out) ==
    LET w1 == session_delete(w, o) IN
    IF w1.exc # "none" THEN w1 ELSE sessioncommit(w1, out)

\* Faulty variant: the flag deciding whether anything is committed, as in
\* save and update.
setactive_flagged(w, o, flag, commit, out1, out2) ==
    LET w1 == [w EXCEPT !.dict[o]["active"] = flag] IN
    IF commit THEN save(w1, o, TRUE, out1) ELSE [w1 EXCEPT !.ret = o]

\* The body shared by sdelete and restore (lines 208-210, 213-215):
\* self.active = flag; sessioncommit(); return _commit and self.save() or self
setactive(w, o, flag, commit, out1, out2) ==
    LET w1 == [w EXCEPT !.dict[o]["active"] = flag]
        w2 == sessioncommit(w1, out1)
    IN  IF w2.exc # "none" THEN w2
        ELSE IF commit THEN save(w2, o, TRUE, out2)
        ELSE [w2 EXCEPT !.ret = o]

\* Faulty variant: sdelete removing the row.
sdelete_hard(w, o, commit, out1, out2) ==
    LET w1 == session_delete(w, o) IN
    IF w1.exc # "none" THEN w1
    ELSE LET w2 == sessioncommit(w1, out1) IN
         IF w2.exc # "none" THEN w2 ELSE [w2 EXCEPT !.ret = o]

\* Faulty variant: restore copied from sdelete with the flag left as it was.
restore_copied(w, o, commit, out1, out2) == setactive(w, o, "D", commit, out1, out2)

\* sdelete (lines 207-210)
sdelete(w, o, commit, out1, out2) == setactive(w, o, "D", commit, out1, out2)

\* restore (lines 212-215)
restore(w, o, commit, out1, out2) == setactive(w, o, "Y", commit, out1, out2)

\* commit (lines 229-230)
commit(w, out) == sessioncommit(w, out)

\* Faulty variant: purge sparing the rows already marked as deleted.
purge_sparing(w, T, out) ==
    LET w1 == query_delete(w, T)
        r == IF w1.exc # "none" THEN w1 ELSE sessioncommit(w1, out)
    IN
    IF out # "ok" \/ w1.exc # "none" THEN r
    ELSE [r EXCEPT !.store[T] = [i \in Ids |->
              IF w.store[T][i].live /\ w.store[T][i].active = "D" THEN w.store[T][i] ELSE @[i]]]

\* purge (lines 232-235)
purge(w, T, out) ==
    LET w1 == query_delete(w, T) IN
    IF w1.exc # "none" THEN w1 ELSE sessioncommit(w1, out)

----------------------------------------------------------------------------
\* The keyword arguments callers pass to create and update.
Payloads ==
    << ("name" :> "a") @@ ("password" :> "pw"),
       ("id" :> 1),
       ("id" :> 2) @@ ("name" :> "b"),
       ("active" :> "Y"),
       ("bogus" :> "x") @@ ("name" :> "a"),
       ("orders" :> "x"),
       ("total" :> "t") @@ ("active" :> "X") >>

----------------------------------------------------------------------------
\* What the caller reads.

\* getattr(o, f) for a column f other than id, in the state (c, s, d, k, sto):
\* the assigned or loaded value, a load from the row for an expired instance
\* in the session, None for an instance never flushed, an error for an
\* expired instance outside the session or without its row, or when the
\* session (ina) accepts no work.
getattr(c, s, d, k, sto, ina, o, f) ==
    IF IsSet(d[o], f) THEN d[o][f]
    ELSE IF s[o] \in {"transient", "pending"} THEN None
    ELSE IF s[o] \in {"persistent", "todelete"} /\ k[o] # 0 /\ sto[c[o]][k[o]].live /\ ~ina
         THEN sto[c[o]][k[o]][f]
    ELSE "Raise"

attr(o, f) == getattr(cls, st, dict, key, store, inactive, o, f)

\* The id of the instance: the assigned attribute, else the mapper's key.
getid(d, k, o) == IF d[o]["id"] # 0 THEN d[o]["id"] ELSE k[o]

xid(o) == getid(dict, key, o)

\* The ids of the rows stored for a type.
StoredIds(T) == {i \in Ids : store[T][i].live}

----------------------------------------------------------------------------
\* The calls.

NoCall ==
    [op |-> "init", obj |-> 0, T |-> "none", commit |-> FALSE, kw |-> 0,
     exc |-> "none", log |-> <<>>, rb |-> 0, cl |-> 0, added |-> FALSE, ret |-> 0,
     was |-> None, had |-> {}]

\* The call's effect on the program state and the record of the call. A
\* commit reported as successful has found every row it updates.
Apply(r, op, o, T, c, p) ==
    /\ calls < MaxCalls
    /\ ~r.stale
    /\ calls' = calls + 1
    /\ cls' = r.cls
    /\ st' = r.st
    /\ dict' = r.dict
    /\ key' = r.key
    /\ store' = r.store
    /\ nextId' = r.nextId
    /\ purged' = r.purged
    /\ inactive' = r.inactive
    /\ held' = IF op = "create" /\ r.exc = "none" THEN held \cup {o} ELSE held
    /\ last' = [op |-> op, obj |-> o, T |-> T, commit |-> c, kw |-> p,
                exc |-> r.exc, log |-> r.log, rb |-> r.rb, cl |-> r.cl,
                added |-> r.added, ret |-> r.ret,
                was |-> IF o \in Objs /\ cls[o] # "none" THEN attr(o, "active") ELSE None,
                had |-> IF op = "purge" THEN {store[T][i].active : i \in StoredIds(T)} ELSE {}]

\* An instance the application still works with: returned to it by create,
\* and neither deleted nor awaiting the delete issued by delete() or purge()
\* (delete is terminal).
Live(o) == o \in held /\ st[o] \notin {"todelete", "deleted", "purged"}

\* The outcome of a commit the call never reaches is not an input of the call.
Unused(out) == out = "ok"

Raises(out) == out \in {"integrity", "other"}

\* The payloads of create: those differing in the fields the loop accepts
\* (none, name, name and password, active, total and active).
CreatePayloads == {p \in DOMAIN Payloads : DOMAIN Payloads[p] \cap {"bogus", "orders"} = {}}

Create(o, T, p, out) ==
    /\ cls[o] = "none"
    /\ p \in CreatePayloads
    /\ \A o2 \in Objs : o2 < o => cls[o2] # "none"
    /\ Apply(create(World, o, T, Payloads[p], out), "create", o, T, TRUE, p)

Update(o, c, p, out) ==
    /\ Live(o)
    /\ ~c => Unused(out)
    /\ Apply(update(World, o, c, Payloads[p], out), "update", o, cls[o], c, p)

Save(o, c, out) ==
    /\ Live(o)
    /\ ~c => Unused(out)
    /\ Apply(save(World, o, c, out), "save", o, cls[o], c, 0)

Delete(o, out) ==
    /\ Live(o)
    /\ key[o] = 0 => Unused(out)
    /\ Apply(delete(World, o, out), "delete", o, cls[o], TRUE, 0)

Sdelete(o, c, out1, out2) ==
    /\ Live(o)
    /\ (~c \/ Raises(out1)) => Unused(out2)
    /\ Apply(sdelete(World, o, c, out1, out2), "sdelete", o, cls[o], c, 0)

Restore(o, c, out1, out2) ==
    /\ Live(o)
    /\ (~c \/ Raises(out1)) => Unused(out2)
    /\ Apply(restore(World, o, c, out1, out2), "restore", o, cls[o], c, 0)

\* x.commit() does the same on whichever instance it is called: it is called
\* on the first one the application works with.
Commit(o, out) ==
    /\ Live(o)
    /\ \A o2 \in Objs : o2 < o => ~Live(o2)
    /\ Apply(commit(World, out), "commit", o, cls[o], TRUE, 0)

Purge(T, out) ==
    /\ inactive => Unused(out)
    /\ Apply(purge(World, T, out), "purge", 0, T, TRUE, 0)

----------------------------------------------------------------------------
\* prepare (lines 125-182)

\* The values of DateTime columns, and str() of them.
DateTimes == {"datetime(2020, 1, 1, 0, 0)"}
str(v) == IF v = "datetime(2020, 1, 1, 0, 0)" THEN "2020-01-01 00:00:00" ELSE v

\* Faulty variant: a list passed by the caller is used as it is.
exclusions_replaced(exc) ==
    IF ~exc.given THEN <<"password">> ELSE exc.names

\* Lines 138-141. exc: [given |-> whether the caller passed a list,
\* names |-> the list]. The result is the list the method goes on with; when
\* given, it is the caller's own list object after the append.
exclusions(exc) ==
    IF ~exc.given THEN <<"password">> ELSE Append(exc.names, "password")

\* Lines 147-160: the column attributes present in __dict__ and not excluded,
\* datetime values as their string.
prepare_columns(T, d, ex) ==
    [c \in {k \in Range(tablecolumns(T)) : k \notin Range(ex) /\ IsSet(d, k)} |->
        IF c # "id" /\ d[c] \in DateTimes THEN str(d[c]) ELSE d[c]]

\* Lines 165-168: the names the relationship loop iterates over. rel:
\* [kind |-> "False" | "True" | "seq", items |-> the sequence passed], an
\* item being [isattr |-> attribute-reference object or plain string,
\* key |-> its name]. item.key of a plain string raises AttributeError.
rel_names(T, rel) ==
    IF rel.kind = "True" \/ Len(rel.items) = 0
    THEN [names |-> IF T = "User" THEN <<"orders">> ELSE <<"user">>, raises |-> FALSE]
    ELSE LET bad == {i \in DOMAIN rel.items : ~rel.items[i].isattr}
             n == IF bad = {} THEN Len(rel.items)
                  ELSE (CHOOSE i \in bad : \A j \in bad : i <= j) - 1
         IN  [names |-> [i \in 1..n |-> rel.items[i].key], raises |-> bad # {}]

\* Faulty variant: the nested call made with rel=True, the related instance's
\* own relationships under their keys.
prepare_related_deep(i, ex) ==
    LET flat == prepare_columns(cls[i], dict[i], Append(ex, "password")) IN
    [k \in DOMAIN flat \cup relationships(cls[i]) |->
        IF k \in DOMAIN flat THEN flat[k] ELSE "nested"]

\* The nested call i.prepare(rel=False, exc=exc) of lines 175 and 178, on the
\* list ex the outer call holds: password is appended once more.
prepare_related(i, ex) == prepare_columns(cls[i], dict[i], Append(ex, "password"))

\* Lines 171-181 for one name r. res is what getattr(self, r) gives for the
\* relationship of the type: [kind |-> "raise" | "none" | "one" | "many",
\* objs |-> the related instances]. Any other name gives no entity.
Resolves(T, r, res) == r \in relationships(T) /\ res.kind \in {"one", "many"}

\* The number of nested prepare calls made for the names iterated.
NestedCalls(T, names, res) ==
    Cardinality({i \in DOMAIN names : Resolves(T, names[i], res)}) * Len(res.objs)

\* prepare(self, rel, json, exc), with the outcome of the relationship load.
prepare(o, rel, json, exc, res) ==
    LET T == cls[o]
        ex == exclusions(exc)
        resp == prepare_columns(T, dict[o], ex)
        it == rel_names(T, rel)
        n == NestedCalls(T, it.names, res)
        none == [x \in {} |-> 0]
        flatOnly == rel.kind = "False" \/ relationships(T) = {}
        rels == [r \in {q \in Range(it.names) : Resolves(T, q, res)} |->
                    [many |-> res.kind = "many",
                     items |-> [i \in DOMAIN res.objs |-> prepare_related(res.objs[i], ex)]]]
    IN  IF ~json THEN
            [exc |-> "none", self |-> TRUE, flat |-> none, rels |-> none, excAfter |-> ex]
        ELSE IF flatOnly THEN
            [exc |-> "none", self |-> FALSE, flat |-> resp, rels |-> none, excAfter |-> ex]
        ELSE
            [exc |-> IF it.raises THEN "AttributeError" ELSE "none",
             self |-> FALSE,
             flat |-> IF it.raises THEN none ELSE resp,
             rels |-> IF it.raises THEN none ELSE rels,
             excAfter |-> ex \o [i \in 1..n |-> "password"]]

----------------------------------------------------------------------------
\* __eq__ (lines 184-195)

RECURSIVE eq_loop(_, _, _, _)
\* Lines 190-195: the loop over the column names, base_dictionary[c] and
\* comp_dictionary[c] raising KeyError for a name not in the __dict__.
eq_loop(base, base_dictionary, comp_dictionary, i) ==
    IF i > Len(base) THEN [exc |-> "none", ret |-> TRUE]
    ELSE IF ~IsSet(base_dictionary, base[i]) \/ ~IsSet(comp_dictionary, base[i])
         THEN [exc |-> "KeyError", ret |-> FALSE]
    ELSE IF base_dictionary[base[i]] # comp_dictionary[base[i]]
         THEN [exc |-> "none", ret |-> FALSE]
    ELSE eq_loop(base, base_dictionary, comp_dictionary, i + 1)

\* Faulty variant: the comparison without the test of the types.
eq_untyped(x, y) == eq_loop(columns(cls[x]), dict[x], dict[x], 1)

\* x == y. Line 189 takes comp_dictionary from self.
eq(x, y) ==
    IF cls[x] # cls[y] THEN [exc |-> "ValueError", ret |-> FALSE]
    ELSE eq_loop(columns(cls[x]), dict[x], dict[x], 1)

----------------------------------------------------------------------------
\* The arguments callers pass to prepare.

RelArgs ==
    {[kind |-> "False", items |-> <<>>],
     [kind |-> "True", items |-> <<>>],
     [kind |-> "seq", items |-> <<>>],
     [kind |-> "seq", items |-> <<[isattr |-> TRUE, key |-> "orders"]>>],
     [kind |-> "seq", items |-> <<[isattr |-> TRUE, key |-> "user"]>>],
     [kind |-> "seq", items |-> <<[isattr |-> TRUE, key |-> "name"]>>],
     [kind |-> "seq", items |-> <<[isattr |-> FALSE, key |-> "orders"]>>]}

ExcArgs ==
    {[given |-> FALSE, names |-> <<>>],
     [given |-> TRUE, names |-> <<>>],
     [given |-> TRUE, names |-> <<"name">>],
     [given |-> TRUE, names |-> <<"id", "total">>]}

\* What the mapper can give for the relationship of an instance of type T:
\* a failed load, and for User.orders a list of Orders, for Order.user None
\* or a User.
Resolutions(T) ==
    {[kind |-> "raise", objs |-> <<>>]} \cup
    IF T = "User"
    THEN {[kind |-> "many", objs |-> <<>>]} \cup
         {[kind |-> "many", objs |-> <<i>>] : i \in {j \in Objs : cls[j] = "Order"}} \cup
         {[kind |-> "many", objs |-> <<i, j>>] : i, j \in {k \in Objs : cls[k] = "Order"}}
    ELSE {[kind |-> "none", objs |-> <<>>]} \cup
         {[kind |-> "one", objs |-> <<i>>] : i \in {j \in Objs : cls[j] = "User"}}

\* prepare and __eq__ change nothing the later calls read (the list passed
\* as exc apart, which excAfter records).
Prepare(o, rel, json, exc, res) ==
    /\ cls[o] # "none"
    /\ LET r == prepare(o, rel, json, exc, res) IN
       last' = [op |-> "prepare", obj |-> o, rel |-> rel, json |-> json, arg |-> exc,
                res |-> res, exc |-> r.exc, self |-> r.self, flat |-> r.flat,
                rels |-> r.rels, excAfter |-> r.excAfter]
    /\ calls' = calls + 1
    /\ UNCHANGED <<cls, st, dict, key, store, nextId, purged, held, inactive>>

Eq(x, y) ==
    /\ calls = 0
    /\ cls[x] # "none" /\ cls[y] # "none"
    /\ LET r == eq(x, y) IN
       last' = [op |-> "eq", obj |-> x, other |-> y, exc |-> r.exc, ret |-> r.ret]
    /\ calls' = calls + 1
    /\ UNCHANGED <<cls, st, dict, key, store, nextId, purged, held, inactive>>

\* The __dict__ an instance of type T can have: expired, as constructed by
\* create with some fields, or with every column loaded from its row.
Shapes(T) ==
    IF T = "User"
    THEN {EmptyDict,
          [EmptyDict EXCEPT !["name"] = "a"],
          [EmptyDict EXCEPT !["name"] = "a", !["password"] = "pw"],
          [EmptyDict EXCEPT !["id"] = 1, !["active"] = "Y", !["name"] = "a",
                            !["password"] = "pw", !["created"] = "datetime(2020, 1, 1, 0, 0)"],
          [EmptyDict EXCEPT !["id"] = 1, !["active"] = "Y", !["name"] = "b",
                            !["password"] = "pw", !["created"] = "datetime(2020, 1, 1, 0, 0)"]}
    ELSE {EmptyDict,
          [EmptyDict EXCEPT !["total"] = "t"],
          [EmptyDict EXCEPT !["id"] = 1, !["active"] = "Y", !["total"] = "t"],
          [EmptyDict EXCEPT !["id"] = 1, !["active"] = "D", !["total"] = "t"]}

\* Instances held by the application outside any session: never saved when
\* they have no id, detached otherwise.
InitPure ==
    /\ cls \in [Objs -> Types]
    /\ dict \in [Objs -> Shapes("User") \cup Shapes("Order")]
    /\ \A o \in Objs : dict[o] \in Shapes(cls[o])
    /\ key = [o \in Objs |-> dict[o]["id"]]
    /\ st = [o \in Objs |-> IF dict[o]["id"] = 0 /\ dict[o] # EmptyDict THEN "transient" ELSE "detached"]
    /\ store = [T \in Types |-> [i \in Ids |-> NoRow]]
    /\ nextId = [T \in Types |-> 2]
    /\ purged = {}
    /\ held = Objs
    /\ inactive = FALSE
    /\ last = NoCall
    /\ calls = 0

NextPure ==
    \/ calls = 0 /\ \E o \in Objs, rel \in RelArgs, json \in BOOLEAN, exc \in ExcArgs :
                        \E res \in Resolutions(cls[o]) : Prepare(o, rel, json, exc, res)
    \/ calls = 0 /\ \E x \in Objs, y \in Objs : Eq(x, y)

SpecPure == InitPure /\ [][NextPure]_vars

----------------------------------------------------------------------------
\* Initial states: the program before any call, and two states it is in
\* after a few calls.

UserRow == [NoRow EXCEPT !.live = TRUE, !.active = "Y", !.name = "a", !.password = "pw"]
OrderRow == [NoRow EXCEPT !.live = TRUE, !.active = "Y", !.total = "t"]

\* No instance, empty tables.
InitEmpty ==
    /\ cls = [o \in Objs |-> "none"]
    /\ st = [o \in Objs |-> "none"]
    /\ dict = [o \in Objs |-> EmptyDict]
    /\ key = [o \in Objs |-> 0]
    /\ store = [T \in Types |-> [i \in Ids |-> NoRow]]
    /\ nextId = [T \in Types |-> 1]
    /\ purged = {}

\* After User.create(name="a", password="pw") and Order.create(total="t"),
\* both commits succeeding: both instances persistent and expired.
InitSaved ==
    /\ cls = [o \in Objs |-> IF o = 1 THEN "User" ELSE IF o = 2 THEN "Order" ELSE "none"]
    /\ st = [o \in Objs |-> IF o <= 2 THEN "persistent" ELSE "none"]
    /\ dict = [o \in Objs |-> EmptyDict]
    /\ key = [o \in Objs |-> IF o <= 2 THEN 1 ELSE 0]
    /\ store = [T \in Types |-> [i \in Ids |->
                  IF i # 1 THEN NoRow ELSE IF T = "User" THEN UserRow ELSE OrderRow]]
    /\ nextId = [T \in Types |-> 2]
    /\ purged = {}

\* After a = User.create(name="b") whose commit failed operationally,
\* User.create(name="a", password="pw") and a.save(False): one instance
\* pending, one persistent, in the same session.
InitPending ==
    /\ cls = [o \in Objs |-> IF o <= 2 THEN "User" ELSE "none"]
    /\ st = [o \in Objs |-> IF o = 1 THEN "pending" ELSE IF o = 2 THEN "persistent" ELSE "none"]
    /\ dict = [o \in Objs |-> IF o = 1 THEN [EmptyDict EXCEPT !["name"] = "b"] ELSE EmptyDict]
    /\ key = [o \in Objs |-> IF o = 2 THEN 1 ELSE 0]
    /\ store = [T \in Types |-> [i \in Ids |->
                  IF i = 1 /\ T = "User" THEN UserRow ELSE NoRow]]
    /\ nextId = [T \in Types |-> IF T = "User" THEN 2 ELSE 1]
    /\ purged = {}

Init ==
    /\ InitEmpty \/ InitSaved \/ InitPending
    /\ held = {o \in Objs : cls[o] # "none"}
    /\ inactive = FALSE
    /\ last = NoCall
    /\ calls = 0

More == calls < MaxCalls

Next ==
    \/ More /\ \E o \in Objs, T \in Types, p \in DOMAIN Payloads, out \in Outcomes :
                    Create(o, T, p, out)
    \/ More /\ \E o \in Objs, c \in BOOLEAN, p \in DOMAIN Payloads, out \in Outcomes :
                    Update(o, c, p, out)
    \/ More /\ \E o \in Objs, c \in BOOLEAN, out \in Outcomes : Save(o, c, out)
    \/ More /\ \E o \in Objs, out \in Outcomes : Delete(o, out)
    \/ More /\ \E o \in Objs, c \in BOOLEAN, out1 \in Outcomes, out2 \in Outcomes :
                    Sdelete(o, c, out1, out2)
    \/ More /\ \E o \in Objs, c \in BOOLEAN, out1 \in Outcomes, out2 \in Outcomes :
                    Restore(o, c, out1, out2)
    \/ More /\ \E o \in Objs, out \in Outcomes : Commit(o, out)
    \/ More /\ \E T \in Types, out \in Outcomes : Purge(T, out)

Spec == Init /\ [][Next]_vars

\* x.prepare(exc=...) with the default rel=False on an instance the
\* application works with, between lifecycle calls.
PrepareFlat(o, exc) ==
    /\ Live(o)
    /\ Prepare(o, [kind |-> "False", items |-> <<>>], TRUE, exc, [kind |-> "raise", objs |-> <<>>])

\* create, update and save followed by the serialization of the result.
NextRound ==
    \/ More /\ \E o \in Objs, T \in Types, p \in DOMAIN Payloads, out \in Outcomes :
                    Create(o, T, p, out)
    \/ More /\ \E o \in Objs, c \in BOOLEAN, p \in DOMAIN Payloads, out \in Outcomes :
                    Update(o, c, p, out)
    \/ More /\ \E o \in Objs, c \in BOOLEAN, out \in Outcomes : Save(o, c, out)
    \/ More /\ \E o \in Objs, exc \in ExcArgs : PrepareFlat(o, exc)

SpecRound == Init /\ [][NextRound]_vars

----------------------------------------------------------------------------
\* The values after the step, for the properties of steps.
attrNext(o, f) == getattr(cls', st', dict', key', store', inactive', o, f)
xidNext(o) == getid(dict', key', o)

Called == calls' = calls + 1
LastOutcome(l) == l.log[Len(l.log)]
AllOk(l) == \A i \in DOMAIN l.log : l.log[i] = "ok"
InSession(s) == s \in {"pending", "persistent", "todelete", "purged"}

\* C1: create does not persist. The step of create leaves the tables, the id
\* counters and the pending bulk deletes as they were, attempts no commit,
\* does not register the instance with the session (it is transient, with no
\* key) and touches no other instance.
C1_CreateDoesNotPersist ==
    [][(Called /\ last'.op = "create") =>
        /\ store' = store /\ nextId' = nextId /\ purged' = purged
        /\ last'.log = <<>> /\ ~last'.added /\ last'.exc = "none"
        /\ st'[last'.obj] = "transient" /\ key'[last'.obj] = 0
        /\ \A o \in Objs \ {last'.obj} : st'[o] = st[o] /\ dict'[o] = dict[o]]_vars

C3_IntegrityAndOtherErrorsPropagate ==
    \A i \in DOMAIN last.log :
        Raises(last.log[i]) =>
            /\ i = Len(last.log)
            /\ last.exc = IF last.log[i] = "integrity" THEN "IntegrityError" ELSE "Exception"
            /\ last.ret = 0

C3_Witness ==
    /\ last.op = "sdelete"
    /\ last.log = <<"ok", "integrity">>
    /\ last.exc = "IntegrityError"

\* C4: update never assigns id. In a step of update, save, sdelete or restore
\* the id of every instance that has one stays the same; update leaves the id
\* attribute of its instance as it was whatever id=v it is given; and an
\* instance without an id gets one only from the INSERT of a successful
\* commit, as a key no row had.
C4_IdNeverAssigned ==
    [][(Called /\ last'.op \in {"update", "save", "sdelete", "restore"}) =>
        /\ \A o \in Objs : xid(o) # 0 => xidNext(o) = xid(o)
        /\ last'.op = "update" => dict'[last'.obj]["id"] = dict[last'.obj]["id"]
        /\ (last'.op = "update" /\ ~last'.commit) => xidNext(last'.obj) = xid(last'.obj)
        /\ \A o \in Objs : (cls[o] # "none" /\ xid(o) = 0 /\ xidNext(o) # 0) =>
              /\ \E i \in DOMAIN last'.log : last'.log[i] = "ok"
              /\ key'[o] = xidNext(o)
              /\ ~store[cls[o]][xidNext(o)].live]_vars

C4_Witness ==
    /\ last.op = "update"
    /\ last.exc = "none"
    /\ "id" \in DOMAIN Payloads[last.kw]
    /\ key[last.obj] # 0
    /\ Payloads[last.kw]["id"] # xid(last.obj)

\* C5: update ignores every name that is not in keys() of the type. No such
\* attribute (relationship names included) is changed by the step, alone or
\* mixed with valid fields; with commit=False the call raises nothing,
\* returns the instance and assigns exactly the passed names that are in
\* keys() (id apart), leaving everything else in the program unchanged; an
\* exception of update comes only from its commit.
C5_UnknownFieldsIgnored ==
    [][(Called /\ last'.op = "update") =>
        LET o == last'.obj
            kw == Payloads[last'.kw]
            accepted == (DOMAIN kw \cap keys(cls[o])) \ {"id"}
        IN  /\ \A n \in AttrNames \ keys(cls[o]) : dict'[o][n] = dict[o][n]
            /\ ~last'.commit =>
                  /\ last'.exc = "none" /\ last'.ret = o
                  /\ \A n \in AttrNames \ accepted : dict'[o][n] = dict[o][n]
                  /\ \A n \in accepted : dict'[o][n] = kw[n]
                  /\ \A o2 \in Objs \ {o} : dict'[o2] = dict[o2]
                  /\ UNCHANGED <<cls, st, key, store, nextId, purged>>
            /\ last'.exc # "none" => (last'.log # <<>> /\ Raises(LastOutcome(last')))]_vars

C5_Witness ==
    /\ last.op = "update"
    /\ ~last.commit
    /\ last.exc = "none"
    /\ DOMAIN Payloads[last.kw] \cap keys(cls[last.obj]) = {}
    /\ \A n \in DOMAIN Payloads[last.kw] : ~IsSet(dict[last.obj], n)

Loaded(o) == \A f \in keys(cls[o]) : IsSet(dict[o], f)

\* C6: x == y between two instances of one type, each with a value for every
\* field, is true exactly when every field in keys() has the same value in x
\* and in y.
C6_EqComparesEveryField ==
    (last.op = "eq" /\ last.exc = "none" /\ Loaded(last.obj) /\ Loaded(last.other)) =>
        (last.ret <=> \A f \in keys(cls[last.obj]) : dict[last.obj][f] = dict[last.other][f])

\* C7: the mapping prepare returns as plain data has no key named password,
\* and neither has any nested mapping of a related instance, whatever list
\* of exclusions the caller passes.
C7_PasswordNeverSerialized ==
    (last.op = "prepare" /\ last.json /\ last.exc = "none") =>
        /\ "password" \notin DOMAIN last.flat
        /\ "password" \notin DOMAIN last.rels
        /\ \A r \in DOMAIN last.rels : \A i \in DOMAIN last.rels[r].items :
              "password" \notin DOMAIN last.rels[r].items[i]

C7_Witness ==
    /\ last.op = "prepare" /\ last.json /\ last.exc = "none"
    /\ last.arg = [given |-> TRUE, names |-> <<>>]
    /\ IsSet(dict[last.obj], "password")
    /\ "name" \in DOMAIN last.flat
    /\ "orders" \in DOMAIN last.rels

\* C8: once active is "D" it stays "D" through every update, save and commit
\* call, whatever the fields and the commit outcome, until restore is called
\* (an attribute that can no longer be read does not count as changed).
C8_NoImplicitResurrection ==
    [][(Called /\ last'.op \in {"update", "save", "commit"}) =>
        \A o \in Objs : (cls[o] # "none" /\ attr(o, "active") = "D") =>
            attrNext(o, "active") \in {"D", "Raise"}]_vars

PersistedBefore(o) == key[o] # 0 /\ store[cls[o]][key[o]].live
SdeleteCommitted == Called /\ last'.op = "sdelete" /\ last'.commit /\ AllOk(last')

\* C10 as stated: after sdelete() on a persisted instance whose commits
\* succeed the row of the instance is stored with active = "D", and the set
\* of ids stored for the type is the same as before.
C10_SdeleteKeepsIdSet ==
    [][(SdeleteCommitted /\ PersistedBefore(last'.obj)) =>
        LET o == last'.obj
            T == cls[o]
        IN  /\ store'[T][key[o]].live
            /\ store'[T][key[o]].active = "D"
            /\ {i \in Ids : store'[T][i].live} = StoredIds(T)]_vars

\* C10 amended: after sdelete() on a persisted instance whose commits succeed
\* the row of the instance is still stored under the same id, with
\* active = "D"; a row of the type disappears only as the pending delete of
\* another instance, and a row appears only as the pending insert of another
\* instance, flushed by the same commit.
C10_SdeleteKeepsRow ==
    [][(SdeleteCommitted /\ PersistedBefore(last'.obj)) =>
        LET o == last'.obj
            T == cls[o]
        IN  /\ last'.exc = "none"
            /\ key'[o] = key[o]
            /\ store'[T][key[o]].live
            /\ store'[T][key[o]].active = "D"
            /\ \A i \in Ids : (store[T][i].live /\ ~store'[T][i].live) =>
                  \E o2 \in Objs \ {o} : cls[o2] = T /\ key[o2] = i /\ st[o2] = "todelete"
            /\ \A i \in Ids : (~store[T][i].live /\ store'[T][i].live) =>
                  \E o2 \in Objs \ {o} : cls[o2] = T /\ st[o2] = "pending" /\ key'[o2] = i]_vars

C10_Witness ==
    /\ last.op = "sdelete" /\ last.commit
    /\ last.log = <<"ok", "ok">>
    /\ last.was = "Y"
    /\ key[last.obj] # 0
    /\ store[cls[last.obj]][key[last.obj]].live
    /\ store[cls[last.obj]][key[last.obj]].active = "D"

PurgeCommitted == Called /\ last'.op = "purge" /\ last'.log = <<"ok">>

\* C11 as stated: after purge() of a type returns with a successful commit no
\* row of the type is stored, whatever the rows' active values, and the rows
\* of every other type are exactly as before.
C11_PurgeTouchesOnlyType ==
    [][PurgeCommitted =>
        /\ \A i \in Ids : ~store'[last'.T][i].live
        /\ \A T2 \in Types \ {last'.T} : store'[T2] = store[T2]]_vars

\* C11 amended: after purge() of a type returns with a successful commit no
\* row of the type is stored, whatever the rows' active values; a row of
\* another type differs only by what was pending for it in the shared
\* session: the delete of its instance (or a pending purge of its type), the
\* insert of a pending instance, the update of an instance with assigned
\* attributes.
C11_PurgeRemovesAllRows ==
    [][PurgeCommitted =>
        /\ last'.exc = "none"
        /\ \A i \in Ids : ~store'[last'.T][i].live
        /\ \A T2 \in Types \ {last'.T} : \A i \in Ids :
              /\ (store[T2][i].live /\ ~store'[T2][i].live) =>
                    \/ T2 \in purged
                    \/ \E o \in Objs : cls[o] = T2 /\ key[o] = i /\ st[o] = "todelete"
              /\ (~store[T2][i].live /\ store'[T2][i].live) =>
                    \E o \in Objs : cls[o] = T2 /\ st[o] = "pending" /\ key'[o] = i
              /\ (store[T2][i].live /\ store'[T2][i].live /\ store'[T2][i] # store[T2][i]) =>
                    \E o \in Objs : /\ cls[o] = T2 /\ st[o] = "persistent" /\ key[o] = i
                                    /\ \E f \in keys(T2) : IsSet(dict[o], f)]_vars

C11_Witness ==
    /\ last.op = "purge" /\ last.log = <<"ok">>
    /\ "D" \in last.had
    /\ StoredIds(last.T) = {}
    /\ \E o \in Objs : cls[o] = last.T /\ key[o] # 0 /\ st[o] = "deleted"
    /\ \E T2 \in Types \ {last.T} : StoredIds(T2) # {}

\* C12: prepare never raises. For every instance, every rel argument (False,
\* True, an empty sequence, relationship names, attribute references, names
\* that are not relationships) and every state of the related reference,
\* prepare with plain-data output returns a mapping, and a relationship that
\* cannot be resolved has no key in it.
C12_PrepareNeverRaises ==
    (last.op = "prepare" /\ last.json) =>
        /\ last.exc = "none"
        /\ ~last.self
        /\ \A r \in DOMAIN last.rels : Resolves(cls[last.obj], r, last.res)

\* C13: serialization is one hop deep. The mapping prepare returns holds the
\* instance's own column fields and, under a relationship key, mappings whose
\* keys are column fields of the related instance's type only: none is a
\* relationship name of the related type (User.orders and Order.user form a
\* cycle), so nothing of a second hop appears.
C13_PrepareDepthBounded ==
    (last.op = "prepare" /\ last.json /\ last.exc = "none") =>
        /\ DOMAIN last.flat \subseteq Range(tablecolumns(cls[last.obj]))
        /\ DOMAIN last.rels \subseteq relationships(cls[last.obj])
        /\ \A r \in DOMAIN last.rels : \A i \in DOMAIN last.rels[r].items :
              LET B == cls[last.res.objs[i]]
                  item == last.rels[r].items[i]
              IN  /\ DOMAIN item \subseteq Range(tablecolumns(B))
                  /\ DOMAIN item \cap relationships(B) = {}
                  /\ \A k \in DOMAIN item : item[k] = dict[last.res.objs[i]][k]
                                            \/ item[k] = str(dict[last.res.objs[i]][k])

C13_Witness ==
    /\ last.op = "prepare" /\ last.json /\ last.exc = "none"
    /\ last.rel.kind = "True"
    /\ "name" \in DOMAIN last.flat
    /\ "orders" \in DOMAIN last.rels
    /\ Len(last.rels["orders"].items) >= 1
    /\ "total" \in DOMAIN last.rels["orders"].items[1]

\* A created and saved instance whose attributes, where loaded, are the
\* stored ones.
Saved(o) ==
    /\ st[o] = "persistent" /\ key[o] # 0 /\ store[cls[o]][key[o]].live
    /\ \A f \in keys(cls[o]) \ {"id"} :
          IsSet(dict[o], f) => dict[o][f] = store[cls[o]][key[o]][f]

\* C14: for a created and saved instance x, x.prepare() has exactly the keys
\* keys() minus the exclusions (password and the names the caller passes),
\* each with the stored value of the column, date/time values as strings.
C14_PrepareRoundTrip ==
    (last.op = "prepare" /\ last.json /\ last.rel.kind = "False" /\ last.exc = "none"
        /\ Saved(last.obj)) =>
        LET x == last.obj
            T == cls[x]
        IN  /\ DOMAIN last.flat = keys(T) \ Range(last.excAfter)
            /\ \A k \in DOMAIN last.flat :
                  IF k = "id" THEN last.flat[k] = key[x]
                  ELSE last.flat[k] = str(store[T][key[x]][k])

\* C15: x == y between instances of two different entity types fails with
\* ValueError, whatever the field values of the two; it returns neither true
\* nor false.
C15_EqTypeMismatchRaises ==
    (last.op = "eq" /\ cls[last.obj] # cls[last.other]) => last.exc = "ValueError"

C15_Witness ==
    /\ last.op = "eq"
    /\ cls[last.obj] = "User" /\ cls[last.other] = "Order"
    /\ Loaded(last.obj) /\ Loaded(last.other)
    /\ last.exc = "ValueError"

\* C16: after every call, the active attribute of every instance the
\* application holds is one of "Y", "N", "D" (an instance never flushed may
\* still have none, an unloadable one is not read), and a call of create,
\* update, save or commit leaves it "Y" on a new instance and on one where it
\* was "Y".
C16_ActiveDomain ==
    [][Called =>
        \A o \in held' :
            LET a == attrNext(o, "active") IN
            /\ a \in {"Y", "N", "D", "Raise"} \/ (a = None /\ key'[o] = 0)
            /\ (/\ last'.op \in {"create", "update", "save", "commit"}
                /\ key'[o] # 0
                /\ o \notin held \/ attr(o, "active") = "Y") =>
                  a \in {"Y", "Raise"}]_vars

\* C17: sdelete and restore attempt a commit right after setting active,
\* whatever the flag: an instance that is in the session has its row marked by
\* that commit when it succeeds. With the flag false that commit is the only
\* one, the call does not register the instance and, unless the commit
\* raised, returns the instance. With the flag true, unless the first commit
\* raised, save registers the instance and a second commit is attempted.
C17_SdeleteAlwaysCommits ==
    last.op \in {"sdelete", "restore"} =>
        LET x == last.obj
            flag == IF last.op = "sdelete" THEN "D" ELSE "Y"
        IN  /\ Len(last.log) >= 1
            /\ ~last.commit =>
                  /\ Len(last.log) = 1
                  /\ ~last.added
                  /\ last.exc = "none" => last.ret = x
                  /\ (last.log = <<"ok">> /\ st[x] = "persistent" /\ store[cls[x]][key[x]].live) =>
                        store[cls[x]][key[x]].active = flag
            /\ last.commit =>
                  IF Raises(last.log[1]) THEN Len(last.log) = 1 /\ ~last.added
                  ELSE Len(last.log) = 2 /\ last.added

C17_Witness ==
    /\ last.op = "sdelete" /\ ~last.commit
    /\ last.log = <<"ok">>
    /\ ~last.added
    /\ last.ret = last.obj
    /\ last.was = "Y"
    /\ st[last.obj] = "persistent"
    /\ store[cls[last.obj]][key[last.obj]].active = "D"

\* The changes pending in the session: instances awaiting INSERT, instances
\* with assigned attributes awaiting UPDATE, instances awaiting DELETE.
Dirty(o) == st[o] = "persistent" /\ \E f \in keys(cls[o]) : IsSet(dict[o], f)
PurgedNow(o) == last'.op = "purge" /\ cls[o] = last'.T

CommitRaised == Called /\ Len(last'.log) = 1 /\ Raises(last'.log[1])

\* What this layer does around a commit that raises: no rollback, no close,
\* no row and no id counter changed; and rollback and close are called in no
\* call without an operational failure.
LayerLeavesSession ==
    /\ CommitRaised => (last'.rb = 0 /\ last'.cl = 0 /\ store' = store /\ nextId' = nextId)
    /\ (Called /\ (last'.rb > 0 \/ last'.cl > 0)) =>
          \E i \in DOMAIN last'.log : last'.log[i] = "operational"

\* The changes pending before the call are pending after it, with the call's
\* own: every other instance has the values it had and is in the session in
\* the state it had (or marked by the call's bulk delete), the bulk deletes
\* are still pending, and the call's own instance is in the session if it was
\* or if the call registered it before the commit.
StaysPending ==
    /\ \A o \in Objs \ {last'.obj} :
          /\ dict'[o] = dict[o]
          /\ \/ st'[o] = st[o]
             \/ last'.op = "purge" /\ cls[o] = last'.T /\ st'[o] = "purged"
    /\ purged \subseteq purged'
    /\ last'.obj \in Objs =>
          /\ InSession(st[last'.obj]) => InSession(st'[last'.obj])
          /\ last'.op \in {"create", "update", "save", "delete"} => InSession(st'[last'.obj])

C20_PrepareLeavesExclusionList ==
    (last.op = "prepare" /\ last.arg.given /\ last.exc = "none") =>
        last.excAfter = last.arg.names

====
